---------------------------- MODULE Spec2Model ----------------------------
(***************************************************************************)
(* Model of excel-report-generator/report-generator.py.                    *)
(*                                                                         *)
(* Python strings are sequences of one-character strings, so that the      *)
(* slicing, stripping and character arithmetic of the source are computed  *)
(* and not assumed.  Three specifications share the module:                *)
(*   SpecChart   the A1 range derivation of main and add_chart_from_table  *)
(*   SpecColumn  auto_number_format and best_width on one column           *)
(*   Spec        one run of main from gather_inputs to its return          *)
(***************************************************************************)
EXTENDS Integers, Sequences, FiniteSets, TLC

VARIABLES
  \* SpecChart
  c_pc, rows, cols, sname, table_range, chart_series,
  \* SpecColumn
  k_pc, column, max_width, fmt_str, width,
  \* Spec
  pc, input_paths, sheet_prefix, args, summary_cfg, frames, pivots, idx,
  log, exit_code, raised

chart_vars  == <<c_pc, rows, cols, sname, table_range, chart_series>>
column_vars == <<k_pc, column, max_width, fmt_str, width>>
main_vars   == <<pc, input_paths, sheet_prefix, args, summary_cfg, frames,
                 pivots, idx, log, exit_code, raised>>
vars == <<chart_vars, column_vars, main_vars>>

---------------------------------------------------------------------------
(* Bounds of the model.                                                    *)
MaxCols   == 703
MaxRows   == 3
MaxCells  == 2
MaxInputs == 2
MaxPivots == 2

---------------------------------------------------------------------------
(* Python built-ins on strings and integers.                               *)

\* Code points 32..126, in order ("GRAVE" stands for code point 96).
Ascii ==
  <<
    " ", "!", "\"", "#", "$", "%", "&", "'", "(", ")", "*", "+", ",", "-", ".", "/",
    "0", "1", "2", "3", "4", "5", "6", "7", "8", "9", ":", ";", "<", "=", ">", "?",
    "@", "A", "B", "C", "D", "E", "F", "G", "H", "I", "J", "K", "L", "M", "N", "O",
    "P", "Q", "R", "S", "T", "U", "V", "W", "X", "Y", "Z", "[", "\\", "]", "^", "_",
    "GRAVE", "a", "b", "c", "d", "e", "f", "g", "h", "i", "j", "k", "l", "m", "n", "o",
    "p", "q", "r", "s", "t", "u", "v", "w", "x", "y", "z", "{", "|", "}", "~"
  >>

chr(n) == Ascii[n - 31]

ord(c) == CHOOSE n \in 32..126 : Ascii[n - 31] = c

isdigit(c) == ord(c) >= 48 /\ ord(c) <= 57

\* s[n:] and s[:n] for 0 <= n.
SliceFrom(s, n) == SubSeq(s, n + 1, Len(s))

SliceTo(s, n) == SubSeq(s, 1, IF n < Len(s) THEN n ELSE Len(s))

RECURSIVE NatStr(_)
NatStr(n) ==
  IF n < 10 THEN <<chr(48 + n)>>
  ELSE NatStr(n \div 10) \o <<chr(48 + (n % 10))>>

\* str(n) of a Python int.
str_int(n) == IF n < 0 THEN <<"-">> \o NatStr(-n) ELSE NatStr(n)

RECURSIVE int_digits(_, _)
int_digits(s, acc) ==
  IF s = <<>> THEN acc
  ELSE int_digits(Tail(s), 10 * acc + (ord(Head(s)) - 48))

\* int(s) of a non-empty string of decimal digits.
int(s) == int_digits(s, 0)

RECURSIVE rstrip_digits(_)
rstrip_digits(s) ==
  IF s # <<>> /\ isdigit(s[Len(s)]) THEN rstrip_digits(SubSeq(s, 1, Len(s) - 1))
  ELSE s

\* "".join([c for c in s if c.isdigit()])
only_digits(s) == SelectSeq(s, isdigit)

RECURSIVE split(_, _)
split(s, sep) ==
  IF \E i \in 1..Len(s) : s[i] = sep
  THEN LET i == CHOOSE i \in 1..Len(s) :
                  s[i] = sep /\ \A j \in 1..(i - 1) : s[j] # sep
       IN <<SubSeq(s, 1, i - 1)>> \o split(SubSeq(s, i + 1, Len(s)), sep)
  ELSE <<s>>

\* str.lower() on ASCII.
lower_char(c) == IF ord(c) >= 65 /\ ord(c) <= 90 THEN chr(ord(c) + 32) ELSE c

lower(s) == [i \in 1..Len(s) |-> lower_char(s[i])]

\* k in s, for strings.
contains(s, k) ==
  \E i \in 0..(Len(s) - Len(k)) : SubSeq(s, i + 1, i + Len(k)) = k

---------------------------------------------------------------------------
(* The A1 helper of main and the range it derives for a pivot sheet.       *)

RECURSIVE col_letters_loop(_, _)
col_letters_loop(col_idx, col_letters) ==
  IF col_idx = 0 THEN col_letters
  ELSE LET q == (col_idx - 1) \div 26
           remainder == (col_idx - 1) % 26
       IN col_letters_loop(q, <<chr(65 + remainder)>> \o col_letters)

\* A plain base-26 encoding: the decrement before the division is lost.
RECURSIVE col_letters_plain(_, _)
col_letters_plain(col_idx, col_letters) ==
  IF col_idx = 0 THEN col_letters
  ELSE col_letters_plain(col_idx \div 26,
                         <<chr(65 + ((col_idx - 1) % 26))>> \o col_letters)

a1_plain(col_idx, row_idx) ==
  col_letters_plain(col_idx + 1, <<>>) \o str_int(row_idx + 1)

a1(col_idx, row_idx) ==
  col_letters_loop(col_idx + 1, <<>>) \o str_int(row_idx + 1)

start == a1(0, 0)

\* The bottom-right corner taken one row short.
end_short(r, c) == a1(c - 1, r - 1)

end(r, c) == a1(c - 1, r)

range_of(r, c) == start \o <<":">> \o end(r, c)

---------------------------------------------------------------------------
(* add_chart_from_table: the series request handed to chart.add_series.    *)

NoSeries == [raised |-> "none", categories |-> <<>>, values |-> <<>>]

add_chart_from_table(sheet_name, range) ==
  LET first == split(range, ":")[1]
      second == split(range, ":")[2]
      first_col_letter == rstrip_digits(first)
      start_row == int(only_digits(first))
  IN IF Len(first_col_letter) # 1
     THEN [NoSeries EXCEPT !.raised = "TypeError"]
     ELSE [raised |-> "none",
           categories |->
             <<"=">> \o sheet_name \o <<"!">> \o first \o <<":">>
               \o first_col_letter \o SliceFrom(second, Len(first_col_letter)),
           values |->
             <<"=">> \o sheet_name \o <<"!">>
               \o <<chr(ord(first_col_letter[1]) + 1)>> \o str_int(start_row)
               \o <<":">> \o second]

---------------------------------------------------------------------------
(* SpecChart: a pivot table of any shape, its range, its chart.            *)

Str_Summary == <<"S", "u", "m", "m", "a", "r", "y", " ", "-", " ">>
Str_by_region == <<"b", "y", "_", "r", "e", "g", "i", "o", "n">>

IdleChart ==
  /\ c_pc = "idle" /\ rows = 0 /\ cols = 1 /\ sname = <<>>
  /\ table_range = <<>> /\ chart_series = NoSeries

IdleColumn ==
  /\ k_pc = "idle" /\ column = [name |-> <<>>, dtype |-> "object", cells |-> <<>>]
  /\ max_width = 0 /\ fmt_str = "None" /\ width = 0

IdleMain ==
  /\ pc = "idle" /\ input_paths = <<>> /\ sheet_prefix = <<>>
  /\ args = [prefix |-> <<>>, no_table |-> FALSE, no_autofilter |-> FALSE,
             no_freeze |-> FALSE]
  /\ summary_cfg = <<>> /\ frames = <<>> /\ pivots = <<>> /\ idx = 1
  /\ log = <<>> /\ exit_code = -1 /\ raised = "none"

InitChart ==
  /\ c_pc = "shape"
  /\ rows \in 0..MaxRows
  /\ cols \in 1..MaxCols
  /\ sname = SliceTo(Str_Summary \o Str_by_region, 31)
  /\ table_range = <<>>
  /\ chart_series = NoSeries
  /\ IdleColumn /\ IdleMain

\* main, lines 221-231: rows, cols = piv_df.shape; start; end.
DeriveRange ==
  /\ c_pc = "shape"
  /\ table_range' = range_of(rows, cols)
  /\ c_pc' = "range"
  /\ UNCHANGED <<rows, cols, sname, chart_series, column_vars, main_vars>>

\* main, line 232.
AddChart ==
  /\ c_pc = "range"
  /\ chart_series' = add_chart_from_table(sname, table_range)
  /\ c_pc' = "chart"
  /\ UNCHANGED <<rows, cols, sname, table_range, column_vars, main_vars>>

NextChart == DeriveRange \/ AddChart

SpecChart == InitChart /\ [][NextChart]_vars

---------------------------------------------------------------------------
(* Reading of A1 notation, as a spreadsheet reads it.  These definitions   *)
(* are the yardstick of the properties below and use none of the model's   *)
(* own encoders.                                                           *)

Letters ==
  {"A", "B", "C", "D", "E", "F", "G", "H", "I", "J", "K", "L", "M",
   "N", "O", "P", "Q", "R", "S", "T", "U", "V", "W", "X", "Y", "Z"}

LetterValue(c) ==
  CASE c = "A" -> 1  [] c = "B" -> 2  [] c = "C" -> 3  [] c = "D" -> 4
    [] c = "E" -> 5  [] c = "F" -> 6  [] c = "G" -> 7  [] c = "H" -> 8
    [] c = "I" -> 9  [] c = "J" -> 10 [] c = "K" -> 11 [] c = "L" -> 12
    [] c = "M" -> 13 [] c = "N" -> 14 [] c = "O" -> 15 [] c = "P" -> 16
    [] c = "Q" -> 17 [] c = "R" -> 18 [] c = "S" -> 19 [] c = "T" -> 20
    [] c = "U" -> 21 [] c = "V" -> 22 [] c = "W" -> 23 [] c = "X" -> 24
    [] c = "Y" -> 25 [] c = "Z" -> 26

DigitValue(c) ==
  CASE c = "0" -> 0 [] c = "1" -> 1 [] c = "2" -> 2 [] c = "3" -> 3
    [] c = "4" -> 4 [] c = "5" -> 5 [] c = "6" -> 6 [] c = "7" -> 7
    [] c = "8" -> 8 [] c = "9" -> 9

\* The bijective base-26 numeral: "A" is 0, "Z" 25, "AA" 26.
RECURSIVE from_letters_acc(_, _)
from_letters_acc(s, acc) ==
  IF s = <<>> THEN acc - 1
  ELSE from_letters_acc(Tail(s), 26 * acc + LetterValue(Head(s)))

from_letters(s) == from_letters_acc(s, 0)

RECURSIVE decimal_acc(_, _)
decimal_acc(s, acc) ==
  IF s = <<>> THEN acc ELSE decimal_acc(Tail(s), 10 * acc + DigitValue(Head(s)))

\* The number of leading column letters of a cell address.
LetterCount(addr) ==
  CHOOSE n \in 0..Len(addr) :
    /\ \A i \in 1..n : addr[i] \in Letters
    /\ n < Len(addr) => addr[n + 1] \notin Letters

CellLetters(addr) == SubSeq(addr, 1, LetterCount(addr))

\* 0-based column index and 1-based displayed row number of a cell address.
CellCol(addr) == from_letters(CellLetters(addr))

CellRow(addr) == decimal_acc(SubSeq(addr, LetterCount(addr) + 1, Len(addr)), 0)

Position(s, c) == CHOOSE i \in 1..Len(s) : s[i] = c /\ \A j \in 1..(i - 1) : s[j] # c

\* The two corners of "A1:C4", and of "=Sheet!A1:C4".
TopLeft(r) == SubSeq(r, 1, Position(r, ":") - 1)

BottomRight(r) == SubSeq(r, Position(r, ":") + 1, Len(r))

Cells(formula) == SubSeq(formula, Position(formula, "!") + 1, Len(formula))

---------------------------------------------------------------------------
(* Properties of the address helper and of the chart ranges.               *)

\* C1: the column letters a1 writes are a non-empty string over A..Z whose
\* value as a bijective base-26 numeral is the column index; two different
\* indices never get the same letters; 0, 25, 26, 701, 702 are written
\* A, Z, AA, ZZ, AAA.
C1_ColumnLettersBijective ==
  c_pc = "range" =>
    LET c == cols - 1
        L == CellLetters(BottomRight(table_range))
    IN /\ L # <<>>
       /\ \A i \in 1..Len(L) : L[i] \in Letters
       /\ from_letters(L) = c
       /\ \A c2 \in 0..(MaxCols - 1) :
            c2 # c => CellLetters(a1(c2, rows)) # L
       /\ c = 0 => L = <<"A">>
       /\ c = 25 => L = <<"Z">>
       /\ c = 26 => L = <<"A", "A">>
       /\ c = 701 => L = <<"Z", "Z">>
       /\ c = 702 => L = <<"A", "A", "A">>

C1_Witness ==
  /\ c_pc = "range" /\ cols = 703
  /\ CellLetters(BottomRight(table_range)) = <<"A", "A", "A">>

\* C2: the range derived for R data rows and C columns runs from "A1" to
\* the cell whose column is C-1 and whose displayed row number is R+1.
C2_RangeCoversHeaderAndRows ==
  c_pc \in {"range", "chart"} =>
    /\ TopLeft(table_range) = <<"A", "1">>
    /\ BottomRight(table_range) = a1(cols - 1, rows)
    /\ CellCol(BottomRight(table_range)) = cols - 1
    /\ CellRow(BottomRight(table_range)) = rows + 1

C2_Witness ==
  /\ c_pc = "range" /\ rows = 3 /\ cols = 28
  /\ table_range = <<"A", "1", ":", "A", "B", "4">>

\* C6: for a table of C >= 2 columns the category range is column 0 alone
\* and the value range is columns 1..C-1, both reaching down to the last
\* data row (displayed row R+1) and starting no lower than the first one.
C6_ChartRangesByColumn ==
  (c_pc = "chart" /\ cols >= 2) =>
    LET cat == Cells(chart_series.categories)
        val == Cells(chart_series.values)
    IN /\ chart_series.raised = "none"
       /\ CellCol(TopLeft(cat)) = 0
       /\ CellCol(BottomRight(cat)) = 0
       /\ CellCol(TopLeft(val)) = 1
       /\ CellCol(BottomRight(val)) = cols - 1
       /\ CellRow(TopLeft(cat)) <= 2 /\ CellRow(BottomRight(cat)) = rows + 1
       /\ CellRow(TopLeft(val)) <= 2 /\ CellRow(BottomRight(val)) = rows + 1

\* The same statement for tables whose last column has a one-letter name.
C6_SingleLetterTables ==
  (c_pc = "chart" /\ cols >= 2 /\ cols <= 26) => C6_ChartRangesByColumn

---------------------------------------------------------------------------
(* Column values.  A cell, or a column name, is a tagged Python value:     *)
(*   int n; float with n its value in tenths; bool n (0/1); date with n    *)
(*   the day of January 2024; str s; nan.                                  *)

PyInt(n)   == [t |-> "int",   n |-> n, s |-> <<>>]
PyFloat(n) == [t |-> "float", n |-> n, s |-> <<>>]
PyBool(n)  == [t |-> "bool",  n |-> n, s |-> <<>>]
PyDate(n)  == [t |-> "date",  n |-> n, s |-> <<>>]
PyStr(s)   == [t |-> "str",   n |-> 0, s |-> s]
PyNaN      == [t |-> "nan",   n |-> 0, s |-> <<>>]

Abs(n) == IF n < 0 THEN -n ELSE n

\* str(v), which is also what Series.astype(str) puts in each cell.
str(v) ==
  CASE v.t = "str"   -> v.s
    [] v.t = "int"   -> str_int(v.n)
    [] v.t = "float" -> (IF v.n < 0 THEN <<"-">> ELSE <<>>)
                          \o NatStr(Abs(v.n) \div 10) \o <<".">>
                          \o NatStr(Abs(v.n) % 10)
    [] v.t = "bool"  -> IF v.n = 1 THEN <<"T", "r", "u", "e">>
                        ELSE <<"F", "a", "l", "s", "e">>
    [] v.t = "date"  -> <<"2", "0", "2", "4", "-", "0", "1", "-">>
                          \o NatStr(v.n \div 10) \o NatStr(v.n % 10)
    [] v.t = "nan"   -> <<"n", "a", "n">>

\* pandas.api.types predicates, on the column's dtype.
is_datetime64_any_dtype(series) == series.dtype = "datetime64[ns]"
is_bool_dtype(series) == series.dtype = "bool"
is_integer_dtype(series) == series.dtype \in {"int64", "uint8"}
is_float_dtype(series) == series.dtype = "float64"

CurrencyKeywords ==
  { <<"a", "m", "o", "u", "n", "t">>, <<"r", "e", "v", "e", "n", "u", "e">>,
    <<"p", "r", "i", "c", "e">>, <<"c", "o", "s", "t">>,
    <<"t", "o", "t", "a", "l">>, <<"s", "a", "l", "e", "s">> }

\* The keyword test made on the name as written, without lower().
auto_number_format_cased(series) ==
  IF is_datetime64_any_dtype(series) THEN "yyyy-mm-dd"
  ELSE IF is_bool_dtype(series) THEN "None"
  ELSE IF is_integer_dtype(series) \/ is_float_dtype(series)
       THEN IF \E k \in CurrencyKeywords : contains(str(series.name), k)
            THEN "$#,##0.00" ELSE "#,##0.00"
       ELSE "None"

auto_number_format(series) ==
  IF is_datetime64_any_dtype(series) THEN "yyyy-mm-dd"
  ELSE IF is_bool_dtype(series) THEN "None"
  ELSE IF is_integer_dtype(series) \/ is_float_dtype(series)
       THEN LET name == lower(str(series.name))
            IN IF \E k \in CurrencyKeywords : contains(name, k)
               THEN "$#,##0.00" ELSE "#,##0.00"
       ELSE "None"

SetMax(S) == CHOOSE x \in S : \A y \in S : y <= x

min(a, b) == IF a <= b THEN a ELSE b

\* The cap applied before the padding is added.
best_width_cap_first(series, cap) ==
  LET maxlen == SetMax({Len(str(series.name))}
                         \cup {Len(str(series.cells[i])) : i \in DOMAIN series.cells})
  IN min(maxlen, cap) + 2

best_width(series, cap) ==
  LET s == [i \in DOMAIN series.cells |-> str(series.cells[i])]
      maxlen == SetMax({Len(str(series.name))} \cup {Len(s[i]) : i \in DOMAIN s})
  IN min(maxlen + 2, cap)

---------------------------------------------------------------------------
(* SpecColumn: one column of any kind, its format and its width.           *)

LongText == [i \in 1..70 |-> "x"]

ColumnNames ==
  { PyStr(<<"T", "o", "t", "a", "l", " ", "S", "a", "l", "e", "s">>),
    PyStr(<<"Q", "u", "a", "n", "t", "i", "t", "y">>),
    PyStr(<<"a", "m", "o", "u", "n", "t">>),
    PyStr(<<"U", "N", "I", "T", " ", "P", "R", "I", "C", "E">>),
    PyStr(<<"r", "e", "g", "i", "o", "n">>),
    PyStr(<<"c", "o", "s", " ", "t">>),
    PyStr(<<>>),
    PyInt(0) }

Dtypes == {"datetime64[ns]", "bool", "int64", "uint8", "float64", "object"}

CellValues(dtype) ==
  CASE dtype = "datetime64[ns]" -> {PyDate(5), PyDate(17)}
    [] dtype = "bool"    -> {PyBool(0), PyBool(1)}
    [] dtype = "int64"   -> {PyInt(-12), PyInt(7), PyInt(1234)}
    [] dtype = "uint8"   -> {PyInt(0), PyInt(255)}
    [] dtype = "float64" -> {PyNaN, PyFloat(15), PyFloat(-12340)}
    [] dtype = "object"  -> {PyStr(<<>>), PyStr(<<"E", "a", "s", "t">>),
                             PyStr(LongText)}

CellSeqs(dtype) ==
  UNION {[1..n -> CellValues(dtype)] : n \in 0..MaxCells}

\* The widths tried as max_width; 60 is the default of best_width.
Caps == {6, 10, 60}

InitColumn ==
  /\ k_pc = "column"
  /\ \E name \in ColumnNames, dtype \in Dtypes :
       \E cells \in CellSeqs(dtype) :
         column = [name |-> name, dtype |-> dtype, cells |-> cells]
  /\ max_width \in Caps
  /\ fmt_str = "None"
  /\ width = 0
  /\ IdleChart /\ IdleMain

\* write_df_to_sheet, line 89.
InferFormat ==
  /\ k_pc = "column"
  /\ fmt_str' = auto_number_format(column)
  /\ k_pc' = "format"
  /\ UNCHANGED <<column, max_width, width, chart_vars, main_vars>>

\* write_df_to_sheet, line 91.
InferWidth ==
  /\ k_pc = "format"
  /\ width' = best_width(column, max_width)
  /\ k_pc' = "width"
  /\ UNCHANGED <<column, max_width, fmt_str, chart_vars, main_vars>>

NextColumn == InferFormat \/ InferWidth

SpecColumn == InitColumn /\ [][NextColumn]_vars

---------------------------------------------------------------------------
(* Properties of the column inference.                                     *)

UpperCase ==
  <<"A", "B", "C", "D", "E", "F", "G", "H", "I", "J", "K", "L", "M",
    "N", "O", "P", "Q", "R", "S", "T", "U", "V", "W", "X", "Y", "Z">>

LowerCase ==
  <<"a", "b", "c", "d", "e", "f", "g", "h", "i", "j", "k", "l", "m",
    "n", "o", "p", "q", "r", "s", "t", "u", "v", "w", "x", "y", "z">>

SameIgnoringCase(a, b) ==
  \/ a = b
  \/ \E i \in 1..26 : {a, b} = {UpperCase[i], LowerCase[i]}

\* Some stretch of text spells keyword k, letter case aside.
SpellsIgnoringCase(text, k) ==
  \E i \in 0..(Len(text) - Len(k)) :
    \A j \in 1..Len(k) : SameIgnoringCase(text[i + j], k[j])

NameText(name) == IF name.t = "str" THEN name.s ELSE str_int(name.n)

\* The format the column's kind and name call for.
FormatByKindAndName(dtype, name) ==
  CASE dtype = "datetime64[ns]" -> "yyyy-mm-dd"
    [] dtype = "bool" -> "None"
    [] dtype \in {"int64", "uint8", "float64"} ->
         IF \E k \in CurrencyKeywords : SpellsIgnoringCase(NameText(name), k)
         THEN "$#,##0.00" ELSE "#,##0.00"
    [] OTHER -> "None"

\* C8: the format is decided by the column's kind and name alone: the date
\* token for a date/time column, none for a boolean column, the currency
\* token for a numeric column whose name spells a keyword in any letter
\* case and the generic token otherwise, none for any other kind; the same
\* for every content of the cells.
C8_FormatByKindAndName ==
  k_pc \in {"format", "width"} =>
    /\ fmt_str \in {"yyyy-mm-dd", "$#,##0.00", "#,##0.00", "None"}
    /\ fmt_str = FormatByKindAndName(column.dtype, column.name)
    /\ \A cells \in CellSeqs(column.dtype) :
         auto_number_format([column EXCEPT !.cells = cells]) = fmt_str

C8_Witness ==
  /\ k_pc = "format"
  /\ column.name = PyStr(<<"T", "o", "t", "a", "l", " ", "S", "a", "l", "e", "s">>)
  /\ column.dtype = "float64"
  /\ Len(column.cells) = 2
  /\ fmt_str = "$#,##0.00"

TextLengths(series) ==
  {Len(str(series.name))} \cup {Len(str(series.cells[i])) : i \in DOMAIN series.cells}

\* C9: the width is min(longest text + 2, cap), the header counted among
\* the texts; it never exceeds the cap; an empty column gets the header's
\* length + 2 under the cap; a cell whose text grows never lowers it.
C9_WidthCappedAndMonotone ==
  k_pc = "width" =>
    /\ width = min(SetMax(TextLengths(column)) + 2, max_width)
    /\ width <= max_width
    /\ column.cells = <<>> => width = min(Len(str(column.name)) + 2, max_width)
    /\ \A i \in DOMAIN column.cells :
         \A v \in CellValues(column.dtype) :
           Len(str(v)) >= Len(str(column.cells[i])) =>
             best_width([column EXCEPT !.cells[i] = v], max_width) >= width

C9_Witness ==
  /\ k_pc = "width"
  /\ Len(column.cells) = 2
  /\ column.cells[1] = PyStr(<<"E", "a", "s", "t">>)
  /\ column.cells[2] = PyStr(LongText)
  /\ max_width = 60 /\ width = 60

---------------------------------------------------------------------------
(* One run of main.  What the run does to the workbook writer, to the      *)
(* readers and to the output streams is kept, in order, in log.            *)

Ev(op, sheet, a, b, text, text2, fmt) ==
  [op |-> op, sheet |-> sheet, a |-> a, b |-> b,
   text |-> text, text2 |-> text2, fmt |-> fmt]

\* A dict, in insertion order: d[k] = v keeps the place of a key it has.
dict_has(d, k) == \E i \in DOMAIN d : d[i].key = k

dict_get(d, k) == d[CHOOSE i \in DOMAIN d : d[i].key = k].value

dict_set(d, k, v) ==
  IF dict_has(d, k)
  THEN [i \in DOMAIN d |-> IF d[i].key = k THEN [key |-> k, value |-> v] ELSE d[i]]
  ELSE Append(d, [key |-> k, value |-> v])

\* str.replace(" ", "_")
replace_spaces(s) == [i \in 1..Len(s) |-> IF s[i] = " " THEN "_" ELSE s[i]]

\* df.shape
shape_rows(df) == IF df.columns = <<>> THEN 0 ELSE Len(df.columns[1].cells)
shape_cols(df) == Len(df.columns)

RECURSIVE column_ops(_, _, _)
column_ops(df, sheet_name, col_idx) ==
  IF col_idx >= Len(df.columns) THEN <<>>
  ELSE LET col == df.columns[col_idx + 1]
           fmt == auto_number_format(col)
           w == best_width(col, 60)
       IN (IF fmt # "None"
           THEN <<Ev("add_format", sheet_name, 0, 0, <<>>, <<>>, fmt)>>
           ELSE <<>>)
          \o <<Ev("set_column", sheet_name, col_idx, w, <<>>, <<>>, fmt)>>
          \o column_ops(df, sheet_name, col_idx + 1)

header_ops(df, sheet_name) ==
  [i \in 1..Len(df.columns) |->
     Ev("write", sheet_name, 0, i - 1, str(df.columns[i].name), <<>>, "bold")]

table_ops(df, sheet_name, make_table) ==
  IF make_table
  THEN header_ops(df, sheet_name)
       \o <<Ev("add_table", sheet_name, shape_rows(df), shape_cols(df) - 1,
               <<"t", "b", "l", "_">> \o replace_spaces(SliceTo(sheet_name, 20)),
               <<>>, "None")>>
  ELSE header_ops(df, sheet_name)

tail_ops(df, sheet_name, make_table, autofilter, freeze_header) ==
  (IF autofilter /\ ~make_table
   THEN <<Ev("autofilter", sheet_name, shape_rows(df), shape_cols(df) - 1,
             <<>>, <<>>, "None")>>
   ELSE <<>>)
  \o (IF freeze_header
      THEN <<Ev("freeze_panes", sheet_name, 1, 0, <<>>, <<>>, "None")>>
      ELSE <<>>)

\* The column formats and widths set before the sheet's data is written.
write_df_to_sheet_formats_first(df, sheet_name, make_table, autofilter, freeze_header) ==
  column_ops(df, sheet_name, 0)
  \o <<Ev("to_excel", sheet_name, IF make_table THEN 1 ELSE 0, 0, <<>>, <<>>, "None"),
       Ev("add_format", sheet_name, 0, 0, <<>>, <<>>, "bold")>>
  \o table_ops(df, sheet_name, make_table)
  \o tail_ops(df, sheet_name, make_table, autofilter, freeze_header)

write_df_to_sheet(df, sheet_name, make_table, autofilter, freeze_header) ==
  <<Ev("to_excel", sheet_name, IF make_table THEN 1 ELSE 0, 0, <<>>, <<>>, "None"),
    Ev("add_format", sheet_name, 0, 0, <<>>, <<>>, "bold")>>
  \o table_ops(df, sheet_name, make_table)
  \o column_ops(df, sheet_name, 0)
  \o tail_ops(df, sheet_name, make_table, autofilter, freeze_header)

\* The chart of one pivot sheet: add_chart, add_series, set_title, insert_chart.
chart_ops(sheet_name, range, title) ==
  LET req == add_chart_from_table(sheet_name, range)
  IN <<Ev("add_chart", sheet_name, 0, 0, <<>>, <<>>, "column"),
       Ev("add_series", sheet_name, 0, 0, req.categories, req.values, "None")>>
     \o (IF title # <<>>
         THEN <<Ev("set_title", sheet_name, 0, 0, title, <<>>, "None")>>
         ELSE <<>>)
     \o <<Ev("insert_chart", sheet_name, 1, 1, <<"B", "2">>, <<>>, "None")>>

---------------------------------------------------------------------------
(* The files and the configuration of a run.                               *)

Str_sales_q1 == <<"s", "a", "l", "e", "s", "_", "q", "1">>
Str_sales_q2 == <<"s", "a", "l", "e", "s", "_", "q", "2">>
Str_notes == <<"n", "o", "t", "e", "s">>
Str_region == <<"r", "e", "g", "i", "o", "n">>
Str_amount == <<"a", "m", "o", "u", "n", "t">>
Str_order_date == <<"o", "r", "d", "e", "r", "_", "d", "a", "t", "e">>
Str_missing == <<"m", "i", "s", "s", "i", "n", "g">>
Str_bogus == <<"b", "o", "g", "u", "s">>
Str_bad == <<"b", "a", "d">>
Str_pivot == <<"p", "i", "v", "o", "t", "_">>
Str_rpt == <<"r", "p", "t", "_">>
Str_East == <<"E", "a", "s", "t">>
Str_West == <<"W", "e", "s", "t">>

Paths ==
  { [stem |-> Str_sales_q1, ext |-> ".csv"],
    [stem |-> Str_sales_q2, ext |-> ".csv"],
    [stem |-> Str_sales_q1, ext |-> ".tsv"],
    [stem |-> Str_notes,    ext |-> ".txt"] }

\* What every readable file of the run holds, rows in key order.
SalesFrame ==
  [columns |->
     << [name |-> PyStr(Str_region), dtype |-> "object",
         cells |-> <<PyStr(Str_East), PyStr(Str_East), PyStr(Str_West)>>],
        [name |-> PyStr(Str_amount), dtype |-> "float64",
         cells |-> <<PyFloat(15), PyFloat(20), PyFloat(-12340)>>],
        [name |-> PyStr(Str_order_date), dtype |-> "datetime64[ns]",
         cells |-> <<PyDate(5), PyDate(17), PyDate(17)>>] >>]

NoFrame == [columns |-> <<>>]

read_frame(path) ==
  IF path.ext \in {".csv", ".tsv", ".json", ".parquet"}
  THEN [raised |-> "none", df |-> SalesFrame]
  ELSE [raised |-> "ValueError", df |-> NoFrame]

PivotSpecs ==
  { [has_name |-> TRUE,  name |-> Str_by_region, source |-> Str_sales_q1,
     index |-> Str_region, values |-> Str_amount],
    [has_name |-> FALSE, name |-> <<>>, source |-> Str_sales_q2,
     index |-> Str_region, values |-> Str_amount],
    [has_name |-> FALSE, name |-> <<>>, source |-> Str_missing,
     index |-> Str_region, values |-> Str_amount],
    [has_name |-> TRUE,  name |-> Str_bad, source |-> Str_sales_q1,
     index |-> Str_bogus, values |-> Str_amount] }

\* --sheet-prefix, --no-table, --no-autofilter, --no-freeze
CommandLines ==
  { [prefix |-> <<>>,    no_table |-> FALSE, no_autofilter |-> FALSE, no_freeze |-> FALSE],
    [prefix |-> Str_rpt, no_table |-> FALSE, no_autofilter |-> TRUE,  no_freeze |-> FALSE],
    [prefix |-> <<>>,    no_table |-> TRUE,  no_autofilter |-> FALSE, no_freeze |-> TRUE] }

SeqsUpTo(S, n) == UNION {[1..k -> S] : k \in 0..n}

---------------------------------------------------------------------------
(* pandas.pivot_table with one index key, one value column, aggfunc sum,   *)
(* followed by reset_index.                                                *)

has_column(df, name) == \E i \in DOMAIN df.columns : df.columns[i].name = PyStr(name)

get_column(df, name) ==
  df.columns[CHOOSE i \in DOMAIN df.columns : df.columns[i].name = PyStr(name)]

RECURSIVE distinct(_)
distinct(s) ==
  IF s = <<>> THEN <<>>
  ELSE LET init == distinct(SubSeq(s, 1, Len(s) - 1))
           last == s[Len(s)]
       IN IF \E i \in DOMAIN init : init[i] = last THEN init ELSE Append(init, last)

RECURSIVE group_sum(_, _, _, _)
group_sum(keys, vals, key, i) ==
  IF i > Len(keys) THEN 0
  ELSE (IF keys[i] = key /\ vals[i].t = "float" THEN vals[i].n ELSE 0)
       + group_sum(keys, vals, key, i + 1)

pivot_table(df, p) ==
  IF ~has_column(df, p.index) \/ ~has_column(df, p.values)
  THEN [raised |-> "KeyError", df |-> NoFrame]
  ELSE LET keys == get_column(df, p.index).cells
           vals == get_column(df, p.values).cells
           groups == distinct(keys)
       IN [raised |-> "none",
           df |-> [columns |->
             << [name |-> PyStr(p.index), dtype |-> get_column(df, p.index).dtype,
                 cells |-> groups],
                [name |-> PyStr(p.values), dtype |-> "float64",
                 cells |-> [g \in DOMAIN groups |->
                              PyFloat(group_sum(keys, vals, groups[g], 1))]] >>]]

\* p.get("name", f"pivot_{src}")
pivot_name(p) == IF p.has_name THEN p.name ELSE Str_pivot \o p.source

---------------------------------------------------------------------------
(* Spec: main, from gather_inputs to its return or to the exception that   *)
(* ends it.  exit_code is -1 while the run lasts, 1 after an exception.    *)
(* The date_cols hints of the configuration only change how read_frame     *)
(* parses a file; the frame a file yields is given, so they are left out.  *)

Init ==
  /\ pc = "start"
  /\ input_paths \in SeqsUpTo(Paths, MaxInputs)
  /\ summary_cfg \in SeqsUpTo(PivotSpecs, MaxPivots)
  /\ args \in CommandLines
  /\ sheet_prefix = args.prefix
  /\ frames = <<>>
  /\ pivots = <<>>
  /\ idx = 1
  /\ log = <<>>
  /\ exit_code = -1
  /\ raised = "none"
  /\ IdleChart /\ IdleColumn

config_vars == <<input_paths, sheet_prefix, args, summary_cfg>>

\* Lines 182-185.
NoInputs ==
  /\ pc = "start"
  /\ input_paths = <<>>
  /\ log' = Append(log, Ev("print", <<>>, 0, 0, <<>>, <<>>, "No input files found."))
  /\ exit_code' = 2
  /\ pc' = "done"
  /\ UNCHANGED <<config_vars, frames, pivots, idx, raised, chart_vars, column_vars>>

\* Lines 182-183 and 187-188.
OpenWriter ==
  /\ pc = "start"
  /\ input_paths # <<>>
  /\ log' = Append(log, Ev("open", <<>>, 0, 0, <<>>, <<>>, "xlsxwriter"))
  /\ frames' = <<>>
  /\ idx' = 1
  /\ pc' = "sources"
  /\ UNCHANGED <<config_vars, pivots, exit_code, raised, chart_vars, column_vars>>

\* Where the run goes once the last source is written: lines 213-214.
after_sources == IF summary_cfg # <<>> THEN "build_pivots" ELSE "close"

\* Lines 191-210, one source.
LoadSource ==
  /\ pc = "sources"
  /\ idx <= Len(input_paths)
  /\ LET p == input_paths[idx]
         name == SliceTo(p.stem, 31)
         sheet_name == sheet_prefix \o name
         got == read_frame(p)
     IN /\ got.raised = "none"
        /\ frames' = dict_set(frames, name, got.df)
        /\ log' = log
             \o <<Ev("read_frame", <<>>, idx, 0, p.stem, <<>>, p.ext)>>
             \o write_df_to_sheet(got.df, sheet_name, ~args.no_table,
                                  ~args.no_autofilter, ~args.no_freeze)
  /\ IF idx = Len(input_paths)
     THEN pc' = after_sources /\ idx' = 1
     ELSE pc' = "sources" /\ idx' = idx + 1
  /\ UNCHANGED <<config_vars, pivots, exit_code, raised, chart_vars, column_vars>>

\* Line 200 when read_frame raises (line 30).
LoadSourceRaises ==
  /\ pc = "sources"
  /\ idx <= Len(input_paths)
  /\ LET p == input_paths[idx]
         got == read_frame(p)
     IN /\ got.raised # "none"
        /\ raised' = got.raised
        /\ log' = Append(log, Ev("read_frame", <<>>, idx, 0, p.stem, <<>>, p.ext))
  /\ exit_code' = 1
  /\ pc' = "done"
  /\ UNCHANGED <<config_vars, frames, pivots, idx, chart_vars, column_vars>>

\* Where build_pivots' loop goes after specification idx, given the dict.
after_spec(d) ==
  IF idx < Len(summary_cfg) THEN "build_pivots"
  ELSE IF d # <<>> THEN "write_pivots" ELSE "close"

\* build_pivots, lines 105-108.
SkipPivot ==
  /\ pc = "build_pivots"
  /\ idx <= Len(summary_cfg)
  /\ LET p == summary_cfg[idx]
     IN /\ ~dict_has(frames, p.source)
        /\ log' = Append(log, Ev("warn", <<>>, idx, 0, p.source, <<>>,
                                 "pivot source not found"))
  /\ pc' = after_spec(pivots)
  /\ idx' = IF idx < Len(summary_cfg) THEN idx + 1 ELSE 1
  /\ UNCHANGED <<config_vars, frames, pivots, exit_code, raised, chart_vars, column_vars>>

\* build_pivots, lines 109-121.
SynthesizePivot ==
  /\ pc = "build_pivots"
  /\ idx <= Len(summary_cfg)
  /\ LET p == summary_cfg[idx]
     IN /\ dict_has(frames, p.source)
        /\ LET got == pivot_table(dict_get(frames, p.source), p)
           IN /\ got.raised = "none"
              /\ pivots' = dict_set(pivots, pivot_name(p), got.df)
              /\ pc' = after_spec(dict_set(pivots, pivot_name(p), got.df))
        /\ log' = Append(log, Ev("pivot_table", <<>>, idx, 0, p.source, <<>>, "sum"))
  /\ idx' = IF idx < Len(summary_cfg) THEN idx + 1 ELSE 1
  /\ UNCHANGED <<config_vars, frames, exit_code, raised, chart_vars, column_vars>>

\* build_pivots, lines 116-117, when pivot_table raises: nothing catches it.
PivotRaises ==
  /\ pc = "build_pivots"
  /\ idx <= Len(summary_cfg)
  /\ LET p == summary_cfg[idx]
     IN /\ dict_has(frames, p.source)
        /\ LET got == pivot_table(dict_get(frames, p.source), p)
           IN /\ got.raised # "none"
              /\ raised' = got.raised
        /\ log' = Append(log, Ev("pivot_table", <<>>, idx, 0, p.source, <<>>, "sum"))
  /\ exit_code' = 1
  /\ pc' = "done"
  /\ UNCHANGED <<config_vars, frames, pivots, idx, chart_vars, column_vars>>

\* Lines 216-232, one pivot.  The range begins with "A1", so that
\* add_chart_from_table finds a one-letter first column and does not raise.
WritePivot ==
  /\ pc = "write_pivots"
  /\ idx <= Len(pivots)
  /\ LET piv_name == pivots[idx].key
         piv_df == pivots[idx].value
         sheet_name == SliceTo(Str_Summary \o piv_name, 31)
     IN log' = log
          \o write_df_to_sheet(piv_df, sheet_name, TRUE, TRUE, TRUE)
          \o chart_ops(sheet_name, range_of(shape_rows(piv_df), shape_cols(piv_df)),
                       piv_name)
  /\ IF idx = Len(pivots)
     THEN pc' = "close" /\ idx' = 1
     ELSE pc' = "write_pivots" /\ idx' = idx + 1
  /\ UNCHANGED <<config_vars, frames, pivots, exit_code, raised, chart_vars, column_vars>>

\* The run returns 0 and leaves the writer open.
Close_unclosed ==
  /\ pc = "close"
  /\ log' = Append(log, Ev("print", <<>>, 0, 0, <<>>, <<>>, "Wrote"))
  /\ exit_code' = 0
  /\ pc' = "done"
  /\ UNCHANGED <<config_vars, frames, pivots, idx, raised, chart_vars, column_vars>>

\* Lines 234-236.
Close ==
  /\ pc = "close"
  /\ log' = log \o <<Ev("close", <<>>, 0, 0, <<>>, <<>>, "None"),
                     Ev("print", <<>>, 0, 0, <<>>, <<>>, "Wrote")>>
  /\ exit_code' = 0
  /\ pc' = "done"
  /\ UNCHANGED <<config_vars, frames, pivots, idx, raised, chart_vars, column_vars>>

Next ==
  \/ NoInputs
  \/ OpenWriter
  \/ LoadSource
  \/ LoadSourceRaises
  \/ SkipPivot
  \/ SynthesizePivot
  \/ PivotRaises
  \/ WritePivot
  \/ Close

Spec == Init /\ [][Next]_vars

---------------------------------------------------------------------------
(* Properties of a run.                                                    *)

OpsAt(op) == {i \in DOMAIN log : log[i].op = op}

\* What is asked of the workbook between its opening and its closing.
SheetOps ==
  {"to_excel", "add_format", "write", "add_table", "set_column", "autofilter",
   "freeze_panes", "add_chart", "add_series", "set_title", "insert_chart"}

ChartOps == {"add_chart", "add_series", "set_title", "insert_chart"}

\* The place of the last to_excel before place k, 0 when there is none.
SheetStart(k) ==
  IF \E t \in 1..(k - 1) : log[t].op = "to_excel"
  THEN CHOOSE t \in 1..(k - 1) :
         /\ log[t].op = "to_excel"
         /\ \A u \in (t + 1)..(k - 1) : log[u].op # "to_excel"
  ELSE 0

\* The last place of the materialization that place k belongs to.
SheetEnd(k) ==
  IF \E t \in (k + 1)..Len(log) : log[t].op \in {"to_excel", "close"}
  THEN (CHOOSE t \in (k + 1)..Len(log) :
          /\ log[t].op \in {"to_excel", "close"}
          /\ \A u \in (k + 1)..(t - 1) : log[u].op \notin {"to_excel", "close"}) - 1
  ELSE Len(log)

\* The sources whose read succeeded: each is followed by its sheet.
Loaded == {i \in OpsAt("read_frame") : i < Len(log) /\ log[i + 1].op = "to_excel"}

\* C5: the writer is opened at most once and closed at most once, every
\* sheet, table, format, freeze and chart operation lies after the opening
\* and before the closing, and a run that returns 0 has closed the writer
\* exactly once, with no workbook operation after it.
C5_WriterScope ==
  /\ Cardinality(OpsAt("open")) <= 1
  /\ Cardinality(OpsAt("close")) <= 1
  /\ \A i \in DOMAIN log :
       log[i].op \in SheetOps \cup {"close"} =>
         /\ \E j \in 1..(i - 1) : log[j].op = "open"
         /\ \A j \in 1..(i - 1) : log[j].op # "close"
  /\ exit_code = 0 =>
       /\ Cardinality(OpsAt("close")) = 1
       /\ \A i \in OpsAt("close") :
            \A j \in (i + 1)..Len(log) : log[j].op \notin SheetOps \cup {"open"}

C5_Witness ==
  /\ exit_code = 0
  /\ Len(input_paths) = 2
  /\ Cardinality(OpsAt("insert_chart")) = 2

\* C10: a chart operation on a sheet comes after that sheet's header
\* cells, table object, every column's format and width, and freeze; a
\* column's format and width are set after the sheet's data, header and
\* table are written; no pivot is synthesized before every source is read
\* and its sheet written.
C10_ProgramOrder ==
  /\ \A k \in DOMAIN log :
       log[k].op \in ChartOps =>
         LET t == SheetStart(k)
         IN /\ t > 0
            /\ log[t].sheet = log[k].sheet
            /\ \E j \in (t + 1)..(k - 1) :
                 /\ log[j].op = "add_table"
                 /\ log[j].sheet = log[k].sheet
                 /\ \A c \in 0..log[j].b :
                      /\ \E h \in (t + 1)..(j - 1) :
                           log[h].op = "write" /\ log[h].b = c
                      /\ \E m \in (j + 1)..(k - 1) :
                           /\ log[m].op = "set_column" /\ log[m].a = c
                           /\ \E f \in (m + 1)..(k - 1) : log[f].op = "freeze_panes"
  /\ \A k \in OpsAt("set_column") :
       LET t == SheetStart(k)
       IN /\ t > 0
          /\ log[t].sheet = log[k].sheet
          /\ \E h \in (t + 1)..(k - 1) : log[h].op = "write" /\ log[h].b = log[k].a
          /\ \A j \in (k + 1)..SheetEnd(k) :
               log[j].op \notin {"write", "add_table"}
  /\ \A k \in OpsAt("pivot_table") \cup OpsAt("warn") :
       /\ Cardinality({i \in Loaded : i < k}) = Len(input_paths)
       /\ Cardinality({i \in OpsAt("to_excel") : i < k}) = Len(input_paths)
       /\ Cardinality({i \in OpsAt("set_column") : i < k})
            = Len(input_paths) * shape_cols(SalesFrame)

C10_Witness ==
  /\ pc = "done"
  /\ Len(input_paths) = 2
  /\ Cardinality(OpsAt("pivot_table")) = 2
  /\ Cardinality(OpsAt("insert_chart")) = 2

\* C3: once a specification was skipped for its unknown source, the run
\* goes on: at its end every specification of the list was looked at, the
\* skipped ones gave no dataset, and the exit code is 0.
C3_SkippedPivotsDoNotStopTheRun ==
  (pc = "done" /\ OpsAt("warn") # {}) =>
    /\ exit_code = 0
    /\ \A j \in DOMAIN summary_cfg :
         \E i \in OpsAt("warn") \cup OpsAt("pivot_table") : log[i].a = j
    /\ Len(pivots) <= Cardinality(OpsAt("pivot_table"))

\* The specifications of the list that name a loaded source and aggregate.
GoodSpecs ==
  {j \in DOMAIN summary_cfg :
     /\ dict_has(frames, summary_cfg[j].source)
     /\ pivot_table(dict_get(frames, summary_cfg[j].source), summary_cfg[j]).raised
          = "none"}

\* The specifications whose aggregation was tried and raised.
FailedSpecs ==
  {j \in DOMAIN summary_cfg :
     /\ \E i \in OpsAt("pivot_table") : log[i].a = j
     /\ pivot_table(dict_get(frames, summary_cfg[j].source), summary_cfg[j]).raised
          # "none"}

\* C4: when the aggregation of one specification has failed, the run is
\* not aborted and every specification that can be aggregated has its
\* sheet written and its chart inserted.
C4_PivotFailuresIsolated ==
  (pc = "done" /\ FailedSpecs # {}) =>
    /\ raised = "none"
    /\ exit_code = 0
    /\ \A j \in GoodSpecs :
         LET sheet == SliceTo(Str_Summary \o pivot_name(summary_cfg[j]), 31)
         IN /\ \E i \in OpsAt("to_excel") : log[i].sheet = sheet
            /\ \E i \in OpsAt("insert_chart") : log[i].sheet = sheet

\* C7: the sheet names handed to write_df_to_sheet in a run are pairwise
\* distinct, and every source loaded has an entry of its own in frames.
C7_SheetNamesUniqueRegistryAppended ==
  /\ \A i, j \in OpsAt("to_excel") : i # j => log[i].sheet # log[j].sheet
  /\ Len(frames) = Cardinality(Loaded)

===========================================================================
